---- MODULE Spec2Model ----
(***************************************************************************)
(* A model of the LinkedIn MCP server's deferred-publication scheduler:    *)
(* the job store (db/models/scheaduledPosts.ts), the evaluation cycle of   *)
(* class LinkedInAPI, class SchedulerService and the OAuth credential      *)
(* provider (services/oauth.ts, db/models/tokenStorage.ts).                *)
(*                                                                         *)
(* Every `await` of the source is a point where another callback may run,  *)
(* so each handler is cut into steps at its awaits that separate two       *)
(* accesses to shared state.                                               *)
(***************************************************************************)
EXTENDS Integers, Sequences, FiniteSets, TLC

\* ------------------------------------------------------------------ bounds

MaxJobs == 2        \* jobs ever created (ObjectIds handed out)
MaxTime == 1        \* the clock of the job specification runs 0..MaxTime
MaxTimeouts == 2    \* delayed first evaluations (setTimeout) pending at once
MaxIdLen == 1       \* length of a platform-assigned post id
MaxTokTime == 2     \* the clock of the credential specification runs 0..MaxTokTime
MaxExpiresIn == 3   \* the largest expires_in of a token response, in ticks
MaxTokens == 2      \* token responses the authorization server gives
MaxRefreshes == 2   \* refreshToken() and exchangeCodeForToken() calls in flight at once
MaxBoots == 1       \* times the server is started again

JobIds == 1..MaxJobs
\* The executions of processDueScheduledPosts that may be in flight together:
\* one begun by a timer callback (processDuePosts), one by the manual trigger
\* (manuallyProcessDuePosts).
Cycles == {"timer", "manual"}
Times == 0..MaxTime
\* scheduledTime values a caller may give: past, present and never reached
SchedTimes == 1..(MaxTime + 1)

\* ------------------------------------------------------------ optional values

\* A field that is undefined in the document, or holds one value.
None == {}
Some(x) == {x}

\* --------------------------------------------------------------- job store

Absent == [status |-> "absent"]

\* ScheduledPostModel.create: the document inserted for a new post
\* (content, createdAt and updatedAt decide nothing and are left out).
NewPost(scheduledTime) ==
    [status |-> "pending", scheduledTime |-> scheduledTime,
     error |-> None, publishedAt |-> None, publishedPostId |-> None]

\* ScheduledPostModel.getDuePosts: { status: "pending", scheduledTime: { $lte: new Date() } }
IsDue(post, t) ==
    /\ post # Absent
    /\ post.status = "pending"
    /\ post.scheduledTime <= t

\* getDuePosts with the scheduledTime condition left out of the filter
GetDuePostsAnyTime(store, t) == {j \in JobIds : store[j] # Absent /\ store[j].status = "pending"}

GetDuePosts(store, t) == {j \in JobIds : IsDue(store[j], t)}

\* ScheduledPostModel.update: updateOne({_id}, {$set: update}); a document that
\* is not there matches nothing and nothing is inserted.  The filter is the id
\* alone: the status the document has is not looked at.
\* an update that creates the document when none matches (upsert: true)
UpdateUpserts(store, id, upd) ==
    LET doc == IF store[id] = Absent THEN NewPost(0) ELSE store[id]
    IN  [store EXCEPT ![id] =
            [f \in DOMAIN doc |-> IF f \in DOMAIN upd THEN upd[f] ELSE doc[f]]]

Update(store, id, upd) ==
    IF store[id] = Absent THEN store
    ELSE [store EXCEPT ![id] =
            [f \in DOMAIN store[id] |->
                IF f \in DOMAIN upd THEN upd[f] ELSE store[id][f]]]

\* markAsPublished without the publishedPostId field
MarkAsPublishedNoId(store, id, postId, t) ==
    Update(store, id, [status |-> "published", publishedAt |-> Some(t)])

MarkAsPublished(store, id, postId, t) ==
    Update(store, id, [status |-> "published", publishedAt |-> Some(t),
                       publishedPostId |-> Some(postId)])

\* markAsFailed that stores the error and leaves the status alone
MarkAsFailedKeepsStatus(store, id, message) ==
    Update(store, id, [error |-> Some(message)])

\* markAsFailed that sets the status and drops the error
MarkAsFailedNoError(store, id, message) ==
    Update(store, id, [status |-> "failed"])

MarkAsFailed(store, id, message) ==
    Update(store, id, [status |-> "failed", error |-> Some(message)])

\* delete that marks the document and leaves it in the collection
DeleteKeepsDocument(store, id) ==
    IF store[id] = Absent THEN store ELSE [store EXCEPT ![id].status = "deleted"]

\* ScheduledPostModel.delete: deleteOne({_id})
Delete(store, id) == [store EXCEPT ![id] = Absent]

\* ----------------------------------------------- createPost's result string

\* Text is a sequence of tokens: the two fixed pieces of createPost's result
\* and the characters of the platform's id.
IdChars == {"a"}
LineTerminators == {"\n"}

RECURSIVE SeqsUpTo(_, _)
SeqsUpTo(S, n) ==
    IF n = 0 THEN {<<>>}
    ELSE LET shorter == SeqsUpTo(S, n - 1)
         IN  shorter \cup {Append(s, c) : s \in {x \in shorter : Len(x) = n - 1}, c \in S}

\* The ids the platform assigns: non-empty, on one line.
PostIds == SeqsUpTo(IdChars, MaxIdLen) \ {<<>>}

\* createPost: return `Post published with ID: ${postId}`
FormatResult(postId) == <<"Post published with ", "ID: ">> \o postId

MinOf(S) == CHOOSE x \in S : \A y \in S : x <= y
MaxOf(S) == CHOOSE x \in S : \A y \in S : y <= x

\* processDueScheduledPosts: result.match(/ID: (.+)/), group 1 or "unknown".
\* The leftmost "ID: " followed by at least one character that is no line
\* terminator; the group runs on to the next line terminator or the end.
ExtractPostId(result) ==
    LET starts == {k \in 1..(Len(result) - 1) :
                      /\ result[k] = "ID: "
                      /\ result[k + 1] \notin LineTerminators}
    IN  IF starts = {} THEN <<"unknown">>
        ELSE LET k == MinOf(starts)
                 last == MaxOf({m \in (k + 1)..Len(result) :
                                  \A n \in (k + 1)..m : result[n] \notin LineTerminators})
             IN  SubSeq(result, k + 1, last)

\* ----------------------------------------------------------- error messages

NotAuthenticatedMsg == "Not authenticated with LinkedIn. Please authorize the application first."
RefreshFailedMsg == "LinkedIn API error: Failed to refresh token and current token is expired"
NetworkMsg == "LinkedIn API error: network failure"
ServerErrorMsg == "LinkedIn API error: Failed to create LinkedIn post: server error"
ClientErrorMsg == "LinkedIn API error: Failed to create LinkedIn post: rejected"
StoreErrorMsg == "store failure"

\* What the credential provider answers a createPost: hasValidToken() false,
\* getAccessToken() throwing, or a token.
CredentialOutcomes == {"noToken", "refreshFailed", "token"}
\* What the fetch of /ugcPosts does: it throws, or answers 5xx, 4xx or 2xx.
FetchFailures == {"network", "http5xx", "http4xx"}

\* createPost throwing an Error with no message when there is no token
CreatePostErrorBlank(kind) ==
    CASE kind = "noToken" -> ""
      [] kind = "refreshFailed" -> ""
      [] kind = "network" -> NetworkMsg
      [] kind = "http5xx" -> ServerErrorMsg
      [] kind = "http4xx" -> ClientErrorMsg

\* createPost: the message of the Error it throws.
CreatePostError(kind) ==
    CASE kind = "noToken" -> NotAuthenticatedMsg
      [] kind = "refreshFailed" -> RefreshFailedMsg
      [] kind = "network" -> NetworkMsg
      [] kind = "http5xx" -> ServerErrorMsg
      [] kind = "http4xx" -> ClientErrorMsg

\* -------------------------------------------------------------- credential

\* getAccessToken: 5 * 60 * 1000 ms, in ticks of two and a half minutes
Margin == 2

\* A token is a number; 0 is the empty string, which JavaScript takes for false.
Tokens == 1..MaxTokens
ExpiresIn == 1..MaxExpiresIn
NoRecord == [accessToken |-> -1]

\* The createPost calls that may be in flight together: one made by a cycle,
\* one by the post-to-linkedin tool.
Callers == {"cycle", "tool"}
RefreshSlots == 1..MaxRefreshes

FreeSlot == [stage |-> "free", kind |-> "-", sent |-> 0, awaiter |-> "-",
             data |-> NoRecord]
\* before: for a call that has to refresh, the credential held and the record
\* persisted when getAccessToken was called.
IdleCaller == [pc |-> "idle", token |-> 0, before |-> NoRecord]
Snapshot(held, stored) == [held |-> held, stored |-> stored]

\* hasValidToken: this.tokenStorage.expiresAt < Date.now()
Expired(ts, t) == ts.expiresAt < t

\* hasValidToken: false without an access token; otherwise true, whether or
\* not the token is expired (the refreshToken() it calls then is not awaited
\* and its result is dropped).
HasValidToken(ts, t) == ts.accessToken # 0

\* getAccessToken with a margin twice as wide
NeedsRefreshWideMargin(ts, t) == ts.expiresAt < t + 2 * Margin

\* getAccessToken testing plain expiry, with the margin left out
NeedsRefreshNoMargin(ts, t) == ts.expiresAt < t

\* getAccessToken: this.tokenStorage.expiresAt < Date.now() + 5 * 60 * 1000
NeedsRefresh(ts, t) == ts.expiresAt < t + Margin

\* refreshToken: the three assignments after response.json()
ApplyRefresh(ts, data, t) ==
    [accessToken |-> data.access_token,
     refreshToken |-> IF data.refresh_token # 0 THEN data.refresh_token ELSE ts.refreshToken,
     expiresAt |-> t + data.expires_in,
     userId |-> ts.userId]

\* exchangeCodeForToken: the three assignments after response.json()
ApplyExchange(ts, data, t) ==
    [accessToken |-> data.access_token,
     refreshToken |-> data.refresh_token,
     expiresAt |-> t + data.expires_in,
     userId |-> ts.userId]

\* LINKEDIN_USER_ID, as the environment may have it at a start of the server
UserIds == {1, 2}

\* new MongoTokenStorage(), with the userId the provider's constructor assigns
NewStorage(u) == [accessToken |-> 0, refreshToken |-> 0, expiresAt |-> 0, userId |-> u]

\* MongoTokenStorage.save: the document it builds, at time t
TokenData(ts, t) ==
    [_id |-> "current", accessToken |-> ts.accessToken,
     refreshToken |-> ts.refreshToken, expiresAt |-> ts.expiresAt,
     userId |-> ts.userId, createdAt |-> t, updatedAt |-> t]

\* load that leaves the refresh token out
LoadWithoutRefreshToken(ts, doc) ==
    IF doc = NoRecord THEN ts
    ELSE [accessToken |-> doc.accessToken, refreshToken |-> ts.refreshToken,
          expiresAt |-> doc.expiresAt, userId |-> doc.userId]

\* MongoTokenStorage.load: the storage after it, given the document findOne
\* returns; without a document the storage is as it was.
Load(ts, doc) ==
    IF doc = NoRecord THEN ts
    ELSE [accessToken |-> doc.accessToken, refreshToken |-> doc.refreshToken,
          expiresAt |-> doc.expiresAt, userId |-> doc.userId]

\* JavaScript's a || b on strings and numbers, "" and 0 both being 0 here
OrElse(a, b) == IF a = 0 THEN b ELSE a

\* FileTokenStorage.save: the object it writes as JSON
FileData(ts) ==
    [accessToken |-> ts.accessToken, refreshToken |-> ts.refreshToken,
     expiresAt |-> ts.expiresAt, userId |-> ts.userId]

\* FileTokenStorage.load: the storage after it, given the object parsed
FileLoad(ts, data) ==
    [accessToken |-> OrElse(data.accessToken, 0),
     refreshToken |-> OrElse(data.refreshToken, 0),
     expiresAt |-> OrElse(data.expiresAt, 0),
     userId |-> OrElse(data.userId, 0)]

\* The bodies the authorization server may answer with: a new access token,
\* with or without a new refresh token, for any lifetime.
TokenResponses(n) ==
    {[access_token |-> n, refresh_token |-> r, expires_in |-> e] :
        r \in {0, n}, e \in ExpiresIn}

\* ---------------------------------------------------------------- state

VARIABLES
    now,             \* Date.now(), in ticks
    jobs,            \* the scheduledPosts collection: JobIds -> document or Absent
    nextId,          \* the next ObjectId insertOne hands out
    cyc,             \* the executions of processDueScheduledPosts, by slot
    del,             \* the deleteScheduledPost request in progress, or how the last one ended
    listed,          \* what getScheduledPosts returned last, if it has been called
    storeUp,         \* whether MongoDB answers: its operations throw while it does not
    isRunning,       \* SchedulerService.isRunning
    intervalId,      \* SchedulerService.intervalId: 0 is undefined
    armed,           \* the interval timers the runtime holds
    pendingTimeouts, \* setTimeout callbacks of start not yet run
    lastCall,        \* the last of start and stop to be called, and whether it repeats
    lastStatus,      \* what getStatus returned last, if it has been called
    tokenStorage,    \* LinkedInOAuthProvider.tokenStorage: the credential held in memory
    persisted,       \* the document of the tokens collection
    refreshes,       \* the refreshToken() calls in flight, by slot
    callers,         \* the createPost calls asking the provider for a token
    nextToken,       \* the next token the authorization server issues
    grant,           \* when the held credential was granted, and for how long
    boots            \* how many times the server has been started again

jobVars == <<jobs, nextId, cyc, del, storeUp, listed>>
timerVars == <<isRunning, intervalId, armed, pendingTimeouts>>
schedVars == <<timerVars, lastCall, lastStatus>>
tokVars == <<tokenStorage, persisted, refreshes, callers, nextToken, grant, boots>>
vars == <<now, jobVars, schedVars, tokVars>>

\* A slot with no execution in it.
IdleCycle ==
    [pc |-> "idle", due |-> <<>>, i |-> 0,
     publishedCount |-> 0, outcome |-> "-",
     platformId |-> <<>>, result |-> <<>>, error |-> ""]

JobInit ==
    /\ jobs = [j \in JobIds |-> Absent]
    /\ nextId = 1
    /\ cyc = [p \in Cycles |-> IdleCycle]
    /\ del = [pc |-> "idle", id |-> 0, result |-> "-"]
    /\ storeUp = TRUE
    /\ listed = None

\* new SchedulerService(linkedinClient)
SchedInit ==
    /\ isRunning = FALSE
    /\ intervalId = 0
    /\ armed = {}
    /\ pendingTimeouts = 0
    /\ lastCall = "none"
    /\ lastStatus = None

\* new MongoTokenStorage(), and a load() that finds no document
TokInit ==
    /\ tokenStorage = NewStorage(1)
    /\ persisted = NoRecord
    /\ refreshes = [k \in RefreshSlots |-> FreeSlot]
    /\ callers = [c \in Callers |-> IdleCaller]
    /\ nextToken = 1
    /\ grant = [at |-> 0, expires_in |-> 0]
    /\ boots = 0

\* The state after construction.
Init ==
    /\ now = 0
    /\ JobInit
    /\ SchedInit
    /\ TokInit

\* ------------------------------------------------------------ environment

Tick ==
    /\ now < MaxTime
    /\ now' = now + 1
    /\ UNCHANGED <<jobs, nextId, cyc, del, storeUp, listed, schedVars, tokVars>>

\* MongoDB stops answering, or answers again.
StoreFlips ==
    /\ storeUp' = ~storeUp
    /\ UNCHANGED <<now, jobs, nextId, cyc, del, listed, schedVars, tokVars>>

\* ------------------------------------------------------------ caller requests

\* LinkedInAPI.schedulePost -> ScheduledPostModel.create
SchedulePost ==
    /\ storeUp
    /\ nextId <= MaxJobs
    /\ \E t \in SchedTimes : jobs' = [jobs EXCEPT ![nextId] = NewPost(t)]
    /\ nextId' = nextId + 1
    /\ UNCHANGED <<now, cyc, del, storeUp, listed, schedVars, tokVars>>

\* deleteScheduledPost: the message of the Error it throws, or the start of
\* the string it returns.
NotFoundMsg == "Scheduled post not found"
AlreadyPublishedMsg == "Cannot delete a post that has already been published"
DeleteFailedMsg == "Failed to delete scheduled post"
DeletedMsg == "Successfully deleted scheduled post"
DeleteErrors == {NotFoundMsg, AlreadyPublishedMsg, DeleteFailedMsg, StoreErrorMsg}

\* How a deleteScheduledPost request for a post ends.
Ended(id, result) == [pc |-> "idle", id |-> id, result |-> result]

\* deleteScheduledPost without its test of post.status
DeleteCheckSkipsStatus ==
    /\ del.pc = "idle"
    /\ \E id \in JobIds :
         del' = IF ~storeUp THEN Ended(id, StoreErrorMsg)
                ELSE IF jobs[id] = Absent THEN Ended(id, NotFoundMsg)
                ELSE [pc |-> "remove", id |-> id, result |-> "-"]
    /\ UNCHANGED <<now, jobs, nextId, cyc, storeUp, listed, schedVars, tokVars>>

\* LinkedInAPI.deleteScheduledPost up to its second await: getById and the
\* two checks.  A post that is not found or is published ends the request
\* with an Error and changes nothing.
DeleteCheck ==
    /\ del.pc = "idle"
    /\ \E id \in JobIds :
         del' = IF ~storeUp THEN Ended(id, StoreErrorMsg)
                ELSE IF jobs[id] = Absent THEN Ended(id, NotFoundMsg)
                ELSE IF jobs[id].status = "published" THEN Ended(id, AlreadyPublishedMsg)
                ELSE [pc |-> "remove", id |-> id, result |-> "-"]
    /\ UNCHANGED <<now, jobs, nextId, cyc, storeUp, listed, schedVars, tokVars>>

\* LinkedInAPI.deleteScheduledPost from ScheduledPostModel.delete on: success
\* is deletedCount > 0.  While the store does not answer, delete throws.
DeleteRemove ==
    /\ del.pc = "remove"
    /\ jobs' = IF storeUp THEN Delete(jobs, del.id) ELSE jobs
    /\ del' = IF ~storeUp THEN Ended(del.id, StoreErrorMsg)
              ELSE IF jobs[del.id] = Absent THEN Ended(del.id, DeleteFailedMsg)
              ELSE Ended(del.id, DeletedMsg)
    /\ UNCHANGED <<now, nextId, cyc, storeUp, listed, schedVars, tokVars>>

\* ScheduledPostModel.getAll(): find({}).sort({ scheduledTime: 1 }), every
\* order of the stored posts that ascends in scheduledTime.
GetAll(store) ==
    LET S == {j \in JobIds : store[j] # Absent}
    IN  {s \in [1..Cardinality(S) -> S] :
            \A a, b \in 1..Cardinality(S) :
                a < b => /\ s[a] # s[b]
                         /\ store[s[a]].scheduledTime <= store[s[b]].scheduledTime}

\* getScheduledPosts: the line it formats for a post, as the post's id and
\* the status the line shows.
FormatPost(store, j) == [id |-> j, status |-> store[j].status]

\* LinkedInAPI.getScheduledPosts (tool get-scheduled-posts); while the store
\* does not answer it throws and nothing is returned.
GetScheduledPosts ==
    /\ storeUp
    /\ \E s \in GetAll(jobs) :
         listed' = Some([i \in DOMAIN s |-> FormatPost(jobs, s[i])])
    /\ UNCHANGED <<now, jobs, nextId, cyc, del, storeUp, schedVars, tokVars>>

\* ------------------------------------------------------------- the cycle

\* The orders in which find(...).toArray() may hand back a set of documents.
Orders(S) ==
    {s \in [1..Cardinality(S) -> S] : \A a, b \in 1..Cardinality(S) : a # b => s[a] # s[b]}

CurrentJob(c) == c.due[c.i]

\* A trigger starts processDueScheduledPosts.
BeginCycle(p) ==
    /\ cyc[p].pc = "idle"
    /\ cyc' = [cyc EXCEPT ![p] = [IdleCycle EXCEPT !.pc = "query"]]

\* a for-loop that looks at the scheduler's isRunning flag before each post
NextPostUnlessStopped(c) ==
    IF c.i + 1 > Len(c.due) \/ ~isRunning
      THEN IdleCycle
    ELSE [c EXCEPT !.i = c.i + 1, !.pc = "call", !.outcome = "-",
                   !.platformId = <<>>, !.result = <<>>, !.error = ""]

\* The for-loop's step to the next post, or the return of publishedCount.
NextPost(c) ==
    IF c.i + 1 > Len(c.due)
      THEN IdleCycle
    ELSE [c EXCEPT !.i = c.i + 1, !.pc = "call", !.outcome = "-",
                   !.platformId = <<>>, !.result = <<>>, !.error = ""]

\* const duePosts = await ScheduledPostModel.getDuePosts(); when it throws,
\* the outer catch rethrows and the cycle is over.
QueryDue(p) ==
    /\ cyc[p].pc = "query"
    /\ IF storeUp
         THEN \E due \in Orders(GetDuePosts(jobs, now)) :
                cyc' = [cyc EXCEPT ![p] = NextPost([@ EXCEPT !.due = due])]
       ELSE cyc' = [cyc EXCEPT ![p] = IdleCycle]
    /\ UNCHANGED <<now, jobs, nextId, del, storeUp, listed, schedVars, tokVars>>

\* createPost(post.content) up to its fetch: hasValidToken and getAccessToken.
CallCreatePost(p) ==
    /\ cyc[p].pc = "call"
    /\ \E cred \in CredentialOutcomes :
         cyc' = [cyc EXCEPT ![p] =
                   IF cred = "token"
                     THEN [@ EXCEPT !.pc = "fetch"]
                   ELSE [@ EXCEPT !.pc = "markFail", !.outcome = cred,
                                  !.error = CreatePostError(cred)]]
    /\ UNCHANGED <<now, jobs, nextId, del, storeUp, listed, schedVars, tokVars>>

\* a loop that goes on to the next post as soon as createPost has returned,
\* leaving the write of the outcome undone
PublishSucceedsMovesOn(p) ==
    /\ cyc[p].pc = "fetch"
    /\ cyc' = [cyc EXCEPT ![p] = NextPost([@ EXCEPT !.publishedCount = @ + 1])]
    /\ UNCHANGED <<now, jobs, nextId, del, storeUp, listed, schedVars, tokVars>>

\* The fetch of /ugcPosts answers 2xx: createPost returns its result string.
PublishSucceeds(p) ==
    /\ cyc[p].pc = "fetch"
    /\ \E id \in PostIds :
         cyc' = [cyc EXCEPT ![p] =
                   [@ EXCEPT !.pc = "markPub", !.outcome = "ok",
                             !.platformId = id, !.result = FormatResult(id)]]
    /\ UNCHANGED <<now, jobs, nextId, del, storeUp, listed, schedVars, tokVars>>

\* The fetch throws or answers !ok: createPost throws.
PublishFails(p) ==
    /\ cyc[p].pc = "fetch"
    /\ \E kind \in FetchFailures :
         cyc' = [cyc EXCEPT ![p] =
                   [@ EXCEPT !.pc = "markFail", !.outcome = kind,
                             !.error = CreatePostError(kind)]]
    /\ UNCHANGED <<now, jobs, nextId, del, storeUp, listed, schedVars, tokVars>>

\* await ScheduledPostModel.markAsPublished(id, postId); publishedCount++.
\* When markAsPublished throws, the per-post catch takes over.
MarkPublished(p) ==
    /\ cyc[p].pc = "markPub"
    /\ IF storeUp
         THEN /\ jobs' = MarkAsPublished(jobs, CurrentJob(cyc[p]),
                                         ExtractPostId(cyc[p].result), now)
              /\ cyc' = [cyc EXCEPT ![p] = NextPost([@ EXCEPT !.publishedCount = @ + 1])]
       ELSE /\ jobs' = jobs
            /\ cyc' = [cyc EXCEPT ![p] = [@ EXCEPT !.pc = "markFail", !.error = StoreErrorMsg]]
    /\ UNCHANGED <<now, nextId, del, storeUp, listed, schedVars, tokVars>>

\* a catch that records the failure and leaves the loop
MarkFailedEndsCycle(p) ==
    /\ cyc[p].pc = "markFail"
    /\ jobs' = IF storeUp THEN MarkAsFailed(jobs, CurrentJob(cyc[p]), cyc[p].error) ELSE jobs
    /\ cyc' = [cyc EXCEPT ![p] = IdleCycle]
    /\ UNCHANGED <<now, nextId, del, storeUp, listed, schedVars, tokVars>>

\* catch: await ScheduledPostModel.markAsFailed(id, error.message).  When it
\* throws inside the catch, the outer catch rethrows and the cycle is over.
MarkFailed(p) ==
    /\ cyc[p].pc = "markFail"
    /\ IF storeUp
         THEN /\ jobs' = MarkAsFailed(jobs, CurrentJob(cyc[p]), cyc[p].error)
              /\ cyc' = [cyc EXCEPT ![p] = NextPost(@)]
       ELSE /\ jobs' = jobs
            /\ cyc' = [cyc EXCEPT ![p] = IdleCycle]
    /\ UNCHANGED <<now, nextId, del, storeUp, listed, schedVars, tokVars>>

\* ------------------------------------------------------------ the scheduler

\* The constructor's default checkIntervalMs
CheckIntervalMs == 60000

\* What lastCall becomes when start or stop is called: the call, marked as a
\* repeat when the call before it was the same.
Called(op) == IF lastCall \in {op, op \o "-again"} THEN op \o "-again" ELSE op

\* start that does not look at isRunning
StartAlwaysArms ==
    /\ pendingTimeouts < MaxTimeouts
    /\ LET id == MinOf((1..(Cardinality(armed) + 1)) \ armed)
       IN  /\ intervalId' = id
           /\ armed' = armed \cup {id}
           /\ isRunning' = TRUE
           /\ pendingTimeouts' = pendingTimeouts + 1
    /\ lastCall' = Called("start")
    /\ UNCHANGED <<lastStatus, now, jobs, nextId, cyc, del, storeUp, listed, tokVars>>

\* start that arms the interval timer and no first evaluation
StartWithoutFirstEvaluation ==
    /\ IF isRunning
         THEN UNCHANGED timerVars
       ELSE LET id == MinOf((1..(Cardinality(armed) + 1)) \ armed)
            IN  /\ intervalId' = id
                /\ armed' = armed \cup {id}
                /\ isRunning' = TRUE
                /\ UNCHANGED pendingTimeouts
    /\ lastCall' = Called("start")
    /\ UNCHANGED <<lastStatus, now, jobs, nextId, cyc, del, storeUp, listed, tokVars>>

\* SchedulerService.start
Start ==
    /\ IF isRunning
         THEN UNCHANGED timerVars
       ELSE /\ pendingTimeouts < MaxTimeouts
            /\ LET id == MinOf((1..(Cardinality(armed) + 1)) \ armed)
               IN  /\ intervalId' = id
                   /\ armed' = armed \cup {id}
                   /\ isRunning' = TRUE
                   /\ pendingTimeouts' = pendingTimeouts + 1
    /\ lastCall' = Called("start")
    /\ UNCHANGED <<lastStatus, now, jobs, nextId, cyc, del, storeUp, listed, tokVars>>

\* stop that sets the flags and leaves the interval timer armed
StopKeepsTimer ==
    /\ IF ~isRunning \/ intervalId = 0
         THEN UNCHANGED timerVars
       ELSE /\ isRunning' = FALSE
            /\ intervalId' = 0
            /\ UNCHANGED <<armed, pendingTimeouts>>
    /\ lastCall' = Called("stop")
    /\ UNCHANGED <<lastStatus, now, jobs, nextId, cyc, del, storeUp, listed, tokVars>>

\* stop that also abandons the cycle a timer began
StopAbandonsCycle ==
    /\ IF ~isRunning \/ intervalId = 0
         THEN UNCHANGED <<timerVars, cyc>>
       ELSE /\ armed' = armed \ {intervalId}
            /\ isRunning' = FALSE
            /\ intervalId' = 0
            /\ cyc' = [cyc EXCEPT !["timer"] = IdleCycle]
            /\ UNCHANGED pendingTimeouts
    /\ lastCall' = Called("stop")
    /\ UNCHANGED <<lastStatus, now, jobs, nextId, del, storeUp, listed, tokVars>>

\* SchedulerService.stop
Stop ==
    /\ IF ~isRunning \/ intervalId = 0
         THEN UNCHANGED timerVars
       ELSE /\ armed' = armed \ {intervalId}
            /\ isRunning' = FALSE
            /\ intervalId' = 0
            /\ UNCHANGED pendingTimeouts
    /\ lastCall' = Called("stop")
    /\ UNCHANGED <<lastStatus, now, jobs, nextId, cyc, del, storeUp, listed, tokVars>>

\* getStatus reporting whether any timer of the scheduler is outstanding
StatusByTimers ==
    [running |-> armed # {} \/ pendingTimeouts > 0, checkIntervalMs |-> CheckIntervalMs]

\* SchedulerService.getStatus: the object returned
Status == [running |-> isRunning, checkIntervalMs |-> CheckIntervalMs]

\* control-scheduler "status"
GetStatus ==
    /\ lastStatus' = Some(Status)
    /\ UNCHANGED <<timerVars, lastCall, now, jobVars, tokVars>>

\* an interval callback that evaluates nothing
IntervalTickSkipsCycle ==
    /\ armed # {}
    /\ UNCHANGED vars

\* The setInterval callback: processDuePosts
IntervalTick ==
    /\ armed # {}
    /\ BeginCycle("timer")
    /\ UNCHANGED <<now, jobs, nextId, del, storeUp, listed, schedVars, tokVars>>

\* The setTimeout callback of start: processDuePosts
TimeoutFires ==
    /\ pendingTimeouts > 0
    /\ BeginCycle("timer")
    /\ pendingTimeouts' = pendingTimeouts - 1
    /\ UNCHANGED <<now, jobs, nextId, del, storeUp, listed, isRunning, intervalId, armed,
                   lastCall, lastStatus, tokVars>>
\* a manual trigger that also starts the scheduler
ManualProcessStartsScheduler ==
    /\ BeginCycle("manual")
    /\ isRunning' = TRUE
    /\ intervalId' = 1
    /\ armed' = armed \cup {1}
    /\ UNCHANGED <<pendingTimeouts, lastCall, lastStatus>>
    /\ UNCHANGED <<now, jobs, nextId, del, storeUp, listed, tokVars>>

\* SchedulerService.manuallyProcessDuePosts (control-scheduler "process")
ManualProcess ==
    /\ BeginCycle("manual")
    /\ UNCHANGED <<now, jobs, nextId, del, storeUp, listed, schedVars, tokVars>>

\* ------------------------------------------------- the credential provider

TokTick ==
    /\ now < MaxTokTime
    /\ now' = now + 1
    /\ UNCHANGED <<jobVars, schedVars, tokVars>>

FreeSlots == {k \in RefreshSlots : refreshes[k].stage = "free"}

\* refreshToken() up to its fetch: the request carries the refresh token held.
StartedRefresh(awaiter) ==
    [stage |-> "fetch", kind |-> "refresh", sent |-> tokenStorage.refreshToken,
     awaiter |-> awaiter, data |-> NoRecord]

\* createPost up to its first real await: hasValidToken(), whose refreshToken()
\* is not awaited, and getAccessToken() up to its await of refreshToken().
CreatePostAuth(c) ==
    /\ callers[c].pc = "idle"
    /\ UNCHANGED <<now, jobVars, schedVars, tokenStorage, persisted, nextToken, grant, boots>>
    /\ IF ~HasValidToken(tokenStorage, now)
         THEN \* createPost throws "Not authenticated ..."
              /\ callers' = [callers EXCEPT ![c] = [IdleCaller EXCEPT !.pc = "noToken"]]
              /\ UNCHANGED refreshes
       ELSE IF ~NeedsRefresh(tokenStorage, now)
         THEN \* getAccessToken() returns the token held
              /\ callers' = [callers EXCEPT ![c] =
                               [IdleCaller EXCEPT !.pc = "got",
                                                  !.token = tokenStorage.accessToken]]
              /\ UNCHANGED refreshes
       ELSE IF tokenStorage.refreshToken = 0
         THEN \* both refreshToken() calls return false at once
              /\ callers' = [callers EXCEPT ![c] =
                               [pc |-> "refreshFailed", token |-> 0,
                                before |-> Snapshot(tokenStorage, persisted)]]
              /\ UNCHANGED refreshes
       ELSE IF Expired(tokenStorage, now)
         THEN \* hasValidToken() has started a refresh nobody awaits, and
              \* getAccessToken() starts its own
              /\ Cardinality(FreeSlots) >= 2
              /\ LET k1 == MinOf(FreeSlots)
                     k2 == MinOf(FreeSlots \ {k1})
                 IN  refreshes' = [refreshes EXCEPT ![k1] = StartedRefresh("detached"),
                                                    ![k2] = StartedRefresh(c)]
              /\ callers' = [callers EXCEPT ![c] =
                               [pc |-> "await", token |-> 0,
                                before |-> Snapshot(tokenStorage, persisted)]]
       ELSE /\ FreeSlots # {}
            /\ refreshes' = [refreshes EXCEPT ![MinOf(FreeSlots)] = StartedRefresh(c)]
            /\ callers' = [callers EXCEPT ![c] =
                               [pc |-> "await", token |-> 0,
                                before |-> Snapshot(tokenStorage, persisted)]]

\* The rest of createPost: the fetch of /ugcPosts with the token, or the throw.
CreatePostEnds(c) ==
    /\ callers[c].pc \in {"got", "noToken", "refreshFailed"}
    /\ callers' = [callers EXCEPT ![c] = IdleCaller]
    /\ UNCHANGED <<now, jobVars, schedVars, tokenStorage, persisted, refreshes,
                   nextToken, grant, boots>>

\* What the caller awaiting a refreshToken() call does once it has returned:
\* getAccessToken throws, or returns the access token held at that moment.
Resume(cs, awaiter, refreshed, ts) ==
    IF awaiter \notin Callers THEN cs
    ELSE [cs EXCEPT ![awaiter] =
            IF refreshed THEN [IdleCaller EXCEPT !.pc = "got", !.token = ts.accessToken]
            ELSE [cs[awaiter] EXCEPT !.pc = "refreshFailed"]]

\* refreshToken: the fetch throws or the response is not ok; false is returned.
RefreshRejected(k) ==
    /\ refreshes[k].stage = "fetch"
    /\ refreshes[k].kind = "refresh"
    /\ refreshes' = [refreshes EXCEPT ![k] = FreeSlot]
    /\ callers' = Resume(callers, refreshes[k].awaiter, FALSE, tokenStorage)
    /\ UNCHANGED <<now, jobVars, schedVars, tokenStorage, persisted, nextToken, grant, boots>>

\* refreshToken: the response is ok; the credential is assigned and save() is
\* called, which builds its document at once and awaits the write.
RefreshGranted(k) ==
    /\ refreshes[k].stage = "fetch"
    /\ refreshes[k].kind = "refresh"
    /\ nextToken <= MaxTokens
    /\ \E data \in TokenResponses(nextToken) :
         /\ tokenStorage' = ApplyRefresh(tokenStorage, data, now)
         /\ grant' = [at |-> now, expires_in |-> data.expires_in]
         /\ refreshes' = [refreshes EXCEPT ![k] =
                            [@ EXCEPT !.stage = "save",
                                       !.data = TokenData(tokenStorage', now)]]
    /\ nextToken' = nextToken + 1
    /\ UNCHANGED <<now, jobVars, schedVars, persisted, callers, boots>>

\* /oauth/callback -> exchangeCodeForToken: the response is ok; the credential
\* is assigned and save() is called.
ExchangeGranted ==
    /\ FreeSlots # {}
    /\ nextToken <= MaxTokens
    /\ \E data \in TokenResponses(nextToken) :
         /\ tokenStorage' = ApplyExchange(tokenStorage, data, now)
         /\ grant' = [at |-> now, expires_in |-> data.expires_in]
         /\ refreshes' = [refreshes EXCEPT ![MinOf(FreeSlots)] =
                            [stage |-> "save", kind |-> "exchange", sent |-> 0,
                             awaiter |-> "callback",
                             data |-> TokenData(tokenStorage', now)]]
    /\ nextToken' = nextToken + 1
    /\ UNCHANGED <<now, jobVars, schedVars, persisted, callers, boots>>

\* save() ends: the document is written and the call returns, or the write
\* throws, which refreshToken turns into false.
SaveEnds(k) ==
    /\ refreshes[k].stage = "save"
    /\ persisted' = IF storeUp THEN refreshes[k].data ELSE persisted
    /\ refreshes' = [refreshes EXCEPT ![k] = FreeSlot]
    /\ callers' = Resume(callers, refreshes[k].awaiter, storeUp, tokenStorage)
    /\ UNCHANGED <<now, jobVars, schedVars, tokenStorage, nextToken, grant, boots>>

\* The server is stopped and started again: main() builds a new token
\* storage, connects to MongoDB (and exits when that fails), has the provider's
\* constructor assign the user id, loads the stored credential, and constructs
\* and starts a new scheduler.  What was in flight is gone with the old process.
Restart ==
    /\ storeUp
    /\ boots < MaxBoots
    /\ boots' = boots + 1
    /\ \E u \in UserIds : tokenStorage' = Load(NewStorage(u), persisted)
    /\ grant' = IF persisted = NoRecord THEN [at |-> 0, expires_in |-> 0]
                ELSE [at |-> persisted.updatedAt,
                      expires_in |-> persisted.expiresAt - persisted.updatedAt]
    /\ refreshes' = [k \in RefreshSlots |-> FreeSlot]
    /\ callers' = [c \in Callers |-> IdleCaller]
    /\ cyc' = [p \in Cycles |-> IdleCycle]
    /\ del' = [pc |-> "idle", id |-> 0, result |-> "-"]
    /\ listed' = None
    /\ isRunning' = TRUE
    /\ intervalId' = 1
    /\ armed' = {1}
    /\ pendingTimeouts' = 1
    /\ lastCall' = "start"
    /\ lastStatus' = None
    /\ UNCHANGED <<now, jobs, nextId, storeUp, persisted, nextToken>>

\* ------------------------------------------------------------ specification

CycleStep(p) ==
    \/ QueryDue(p)
    \/ CallCreatePost(p)
    \/ PublishSucceeds(p)
    \/ PublishFails(p)
    \/ MarkPublished(p)
    \/ MarkFailed(p)

\* The state main() leaves: the scheduler constructed and started.
InitStarted ==
    /\ now = 0
    /\ JobInit
    /\ isRunning = TRUE
    /\ intervalId = 1
    /\ armed = {1}
    /\ pendingTimeouts = 1
    /\ lastCall = "start"
    /\ lastStatus = None
    /\ TokInit

\* The job store and the cycles over it, the scheduler running and the store
\* answering throughout.
Next ==
    \/ Tick
    \/ SchedulePost
    \/ DeleteCheck
    \/ DeleteRemove
    \/ IntervalTick
    \/ TimeoutFires
    \/ ManualProcess
    \/ \E p \in Cycles : CycleStep(p)

Spec == InitStarted /\ [][Next]_vars

\* The caller's requests on the job store, with the cycles the timers begin.
CallerNext ==
    \/ Tick
    \/ SchedulePost
    \/ DeleteCheck
    \/ DeleteRemove
    \/ GetScheduledPosts
    \/ IntervalTick
    \/ TimeoutFires
    \/ CycleStep("timer")

CallerSpec == InitStarted /\ [][CallerNext]_vars

\* The job store under the timers' cycles and the caller's deletes.
LiveNext ==
    \/ Tick
    \/ SchedulePost
    \/ DeleteCheck
    \/ DeleteRemove
    \/ IntervalTick
    \/ TimeoutFires
    \/ CycleStep("timer")

\* The scheduler stays started and the store answers: the interval callback
\* runs again and again, and every awaited call of a cycle ends.
LiveSpec ==
    /\ InitStarted
    /\ [][LiveNext]_vars
    /\ WF_vars(IntervalTick)
    /\ WF_vars(CycleStep("timer"))

\* The cycles over a job store that stops answering and answers again at any
\* moment.
FaultNext ==
    \/ Tick
    \/ SchedulePost
    \/ StoreFlips
    \/ IntervalTick
    \/ TimeoutFires
    \/ ManualProcess
    \/ \E p \in Cycles : CycleStep(p)

FaultSpec == InitStarted /\ [][FaultNext]_vars

\* The credential provider and its callers.
TokNext ==
    \/ TokTick
    \/ StoreFlips
    \/ ExchangeGranted
    \/ \E c \in Callers : CreatePostAuth(c)
    \/ \E c \in Callers : CreatePostEnds(c)
    \/ \E k \in RefreshSlots : RefreshRejected(k)
    \/ \E k \in RefreshSlots : RefreshGranted(k)
    \/ \E k \in RefreshSlots : SaveEnds(k)

TokSpec == Init /\ [][TokNext]_vars

\* The credential provider and its callers, the server being started again.
RestartNext ==
    \/ TokNext
    \/ Restart

RestartSpec == Init /\ [][RestartNext]_vars

\* The scheduler under the control-scheduler tool, from its construction,
\* with the cycles its timers begin.
SchedNext ==
    \/ Tick
    \/ SchedulePost
    \/ Start
    \/ Stop
    \/ GetStatus
    \/ IntervalTick
    \/ TimeoutFires
    \/ CycleStep("timer")

\* The runtime runs every timer callback that is due, whatever else is in
\* flight, and every awaited call of a cycle ends.
SchedSpec ==
    /\ Init
    /\ [][SchedNext]_vars
    /\ SF_vars(TimeoutFires)
    /\ WF_vars(CycleStep("timer"))

\* The control-scheduler tool's start, stop and process, over the timers and
\* the cycles that they and the manual trigger begin.
ManualNext ==
    \/ Tick
    \/ SchedulePost
    \/ Start
    \/ Stop
    \/ IntervalTick
    \/ TimeoutFires
    \/ ManualProcess
    \/ \E p \in Cycles : CycleStep(p)

ManualSpec == Init /\ [][ManualNext]_vars

\* ------------------------------------------------------------- properties

Range(s) == {s[i] : i \in DOMAIN s}
Terminal == {"published", "failed"}
Stored(j) == jobs[j] # Absent

\* Cycle p takes a step.
Steps(p) == cyc'[p] # cyc[p]

\* Cycle p begins the loop body for a post: createPost is called.
CallsCreatePost(p) == Steps(p) /\ cyc'[p].pc = "call"

\* Cycle p is past the credential check for job j: the POST to /ugcPosts has
\* been sent for it.
IssuedPublish(p, j) ==
    /\ cyc[p].pc \in {"fetch", "markPub", "markFail"}
    /\ cyc[p].pc = "markFail" => cyc[p].outcome \in FetchFailures \cup {"ok"}
    /\ CurrentJob(cyc[p]) = j

\* Cycle p ends its getDuePosts query.
Queries(p) == cyc[p].pc = "query" /\ Steps(p)

\* Cycle p ends its markAsFailed call for an error of one of the given kinds.
WritesFailure(p, kinds) ==
    /\ cyc[p].pc = "markFail"
    /\ cyc[p].outcome \in kinds
    /\ Steps(p)
    /\ storeUp
    /\ Stored(CurrentJob(cyc[p]))

\* No job that is failed now is pending afterwards, and no query selects it.
FailedIsFinal ==
    \A j \in JobIds :
        (Stored(j) /\ jobs[j].status = "failed") =>
            /\ jobs'[j] = Absent \/ jobs'[j].status # "pending"
            /\ \A p \in Cycles : Queries(p) => j \notin Range(cyc'[p].due)

\* C1: once a stored job's status is 'published' or 'failed', no step changes
\* it; the job may only be removed.
C1_TerminalStatusNeverChanges ==
    [][\A j \in JobIds :
          (Stored(j) /\ jobs[j].status \in Terminal) =>
              (jobs'[j] = Absent \/ jobs'[j].status = jobs[j].status)]_vars

\* C2: a timer-triggered cycle and a manual cycle never both issue a publish
\* call for the same job.
C2_NoDoublePublish ==
    \A j \in JobIds : ~(IssuedPublish("timer", j) /\ IssuedPublish("manual", j))

\* C3: at most one execution of processDueScheduledPosts is in flight.
C3_AtMostOneCycleInFlight ==
    Cardinality({p \in Cycles : cyc[p].pc # "idle"}) <= 1

\* C4: createPost is never called for a job whose stored status is
\* 'published' or 'failed' at the moment of the call.
C4_NoCallForTerminalJob ==
    [][\A p \in Cycles :
          CallsCreatePost(p) =>
              LET j == CurrentJob(cyc'[p])
              IN  jobs'[j] = Absent \/ jobs'[j].status \notin Terminal]_vars

\* C5: when createPost has returned for a selected job, the cycle's write
\* leaves the job 'published', with the id the platform assigned as
\* publishedPostId and the time of the write as publishedAt.
C5_DueJobIsPublished ==
    [][\A p \in Cycles :
          (cyc[p].pc = "markPub" /\ Steps(p) /\ storeUp /\ Stored(CurrentJob(cyc[p]))) =>
              LET j == CurrentJob(cyc[p])
              IN  /\ cyc[p].outcome = "ok"
                  /\ jobs'[j] # Absent
                  /\ jobs'[j].status = "published"
                  /\ jobs'[j].publishedPostId = Some(cyc[p].platformId)
                  /\ jobs'[j].publishedAt = Some(now)
                  /\ jobs'[j].scheduledTime <= now]_vars

C5_Witness ==
    \E j \in JobIds :
        /\ Stored(j)
        /\ jobs[j].status = "published"
        /\ jobs[j].publishedPostId = Some(<<"a">>)
        /\ jobs[j].publishedAt = Some(now)
        /\ jobs[j].error = None

\* C6: a query selects a job iff it is stored, 'pending' and scheduled at or
\* before the time of the query, and a cycle calls createPost for, and writes
\* to, selected jobs only: every other job is left as it is by its steps.
C6_ExactlyTheDueJobs ==
    [][\A p \in Cycles :
          /\ (Queries(p) /\ storeUp) =>
                \A j \in JobIds :
                    j \in Range(cyc'[p].due) <=>
                        (Stored(j) /\ jobs[j].status = "pending"
                                   /\ jobs[j].scheduledTime <= now)
          /\ (Steps(p) /\ cyc[p].pc \notin {"idle", "query"}) =>
                /\ \A j \in JobIds \ Range(cyc[p].due) : jobs'[j] = jobs[j]
                /\ cyc'[p].pc # "idle" =>
                      /\ cyc'[p].due = cyc[p].due
                      /\ cyc'[p].i \in 1..Len(cyc[p].due)]_vars

C6_Witness ==
    \E p \in Cycles, j \in JobIds :
        /\ cyc[p].pc \in {"markPub", "markFail"}
        /\ Stored(j)
        /\ jobs[j] = NewPost(MaxTime + 1)
        /\ j \notin Range(cyc[p].due)

C8_RejectionMarksFailed ==
    [][/\ \A p \in Cycles :
            WritesFailure(p, {"http4xx"}) =>
                LET j == CurrentJob(cyc[p])
                IN  /\ jobs'[j].status = "failed"
                    /\ jobs'[j].error = Some(ClientErrorMsg)
       /\ \A j \in JobIds :
            (Stored(j) /\ jobs[j].status = "failed" /\ jobs[j].error = Some(ClientErrorMsg)) =>
                /\ jobs'[j] = Absent \/ jobs'[j].status \in Terminal
                /\ \A p \in Cycles : Queries(p) => j \notin Range(cyc'[p].due)]_vars

C8_Witness ==
    \E j \in JobIds :
        /\ Stored(j)
        /\ jobs[j].status = "failed"
        /\ jobs[j].error = Some(ClientErrorMsg)
        /\ jobs[j].scheduledTime <= now
        /\ \E p \in Cycles : cyc[p].pc = "call" /\ j \notin Range(cyc[p].due)

Returns(c) == callers[c].pc # "got" /\ callers'[c].pc = "got"

\* C10 as stated: whenever getAccessToken returns a token, the credential
\* held expires no sooner than the margin after the time of return.
C10_ReturnedTokenKeepsMargin ==
    [][\A c \in Callers :
          Returns(c) => tokenStorage'.expiresAt >= now' + Margin]_vars

\* C10 as amended: getAccessToken returns the token without a refresh only
\* when it expires no sooner than the margin from now; after a refresh it
\* returns the access token then held, which keeps the margin exactly when
\* the expires_in it was granted with is at least the margin plus the time
\* gone by since the grant.
C10_MarginUnlessGrantTooShort ==
    [][\A c \in Callers :
          Returns(c) =>
              /\ callers'[c].token = tokenStorage'.accessToken
              /\ callers'[c].token # 0
              /\ callers[c].pc = "idle" =>
                    tokenStorage'.expiresAt >= now' + Margin
              /\ callers[c].pc = "await" =>
                    (tokenStorage'.expiresAt >= now' + Margin
                        <=> grant'.expires_in >= Margin + (now' - grant'.at))]_vars

C10_Witness ==
    \E c \in Callers :
        /\ callers[c].pc = "got"
        /\ callers[c].token = tokenStorage.accessToken
        /\ nextToken > 2
        /\ grant.at > 0
        /\ tokenStorage.expiresAt >= now + Margin

\* Caller c calls createPost: hasValidToken, then getAccessToken.
Calls(c) == callers[c].pc = "idle" /\ callers'[c].pc # "idle"

\* getAccessToken throws to caller c.
Throws(c) == callers[c].pc # "refreshFailed" /\ callers'[c].pc = "refreshFailed"

\* C11: called with a credential that expires more than the margin from now,
\* getAccessToken returns the access token held, starts no refresh and leaves
\* the credential held and the persisted record as they are.
C11_FreshTokenReturnedUnchanged ==
    [][\A c \in Callers :
          (/\ Calls(c)
           /\ tokenStorage.accessToken # 0
           /\ tokenStorage.expiresAt > now + Margin) =>
              /\ callers'[c].pc = "got"
              /\ callers'[c].token = tokenStorage.accessToken
              /\ refreshes' = refreshes
              /\ tokenStorage' = tokenStorage
              /\ persisted' = persisted
              /\ nextToken' = nextToken]_vars

C11_Witness ==
    \E c \in Callers :
        /\ callers[c].pc = "got"
        /\ callers[c].token = tokenStorage.accessToken
        /\ tokenStorage.expiresAt > now + Margin
        /\ now > 0
        /\ persisted = TokenData(tokenStorage, grant.at)
        /\ \A k \in RefreshSlots : refreshes[k].stage = "free"

\* The refreshToken() call that caller c awaits has assigned a token response
\* to the credential held.
OwnRefreshApplied(c) ==
    \E k \in RefreshSlots : refreshes[k].awaiter = c /\ refreshes[k].data # NoRecord

\* C12: when getAccessToken throws, the credential held and the persisted
\* record are what they were when it was called, but for what other calls in
\* flight have done to them: the failing call itself has assigned nothing.
C12_FailureLeavesCredentialUntouched ==
    [][\A c \in Callers :
          Throws(c) =>
              \/ /\ tokenStorage' = callers'[c].before.held
                 /\ persisted' = callers'[c].before.stored
              \/ ~OwnRefreshApplied(c)]_vars

\* C13: hasValidToken is false without an access token, true with one that
\* has not expired, and false with an expired one and no refresh token (the
\* refresh cannot succeed); createPost reports "not authenticated" exactly
\* when it is false.
C13_HasValidTokenIffUsable ==
    [][\A c \in Callers :
          Calls(c) =>
              /\ tokenStorage.accessToken = 0 => callers'[c].pc = "noToken"
              /\ (tokenStorage.accessToken # 0 /\ tokenStorage.expiresAt >= now) =>
                    callers'[c].pc # "noToken"
              /\ (/\ tokenStorage.accessToken # 0
                  /\ tokenStorage.expiresAt < now
                  /\ tokenStorage.refreshToken = 0) =>
                    callers'[c].pc = "noToken"]_vars

\* start is called / stop is called (a call that repeats a repeated call
\* leaves lastCall as it is).
StartCalled == lastCall' # lastCall /\ lastCall' \in {"start", "start-again"}
StopCalled == lastCall' # lastCall /\ lastCall' \in {"stop", "stop-again"}
StartedLast == lastCall \in {"start", "start-again"}

\* C14: start called right after start arms no further interval timer and no
\* further first evaluation and leaves isRunning true; while the scheduler
\* runs, exactly one interval timer is armed, the one intervalId names.
C14_StartIsIdempotent ==
    /\ [](isRunning => (Cardinality(armed) = 1 /\ armed = {intervalId}))
    /\ [][(StartCalled /\ StartedLast) =>
              /\ isRunning /\ isRunning'
              /\ armed' = armed
              /\ intervalId' = intervalId
              /\ pendingTimeouts' = pendingTimeouts
              /\ UNCHANGED <<jobs, cyc>>]_vars

C14_Witness ==
    /\ lastCall = "start-again"
    /\ isRunning
    /\ armed = {1}
    /\ pendingTimeouts = 1

\* C15: start on a stopped scheduler arms one first evaluation besides the
\* interval timer, and a job that is due while a first evaluation is
\* outstanding is attempted, whether or not the interval timer ever ticks.
C15_FirstEvaluationAfterStart ==
    /\ [][(~isRunning /\ isRunning') =>
              /\ pendingTimeouts' = pendingTimeouts + 1
              /\ Cardinality(armed') = Cardinality(armed) + 1]_vars
    /\ \A j \in JobIds :
          (pendingTimeouts > 0 /\ IsDue(jobs[j], now)) ~> (jobs[j].status \in Terminal)

C15_Witness ==
    /\ lastCall = "start"
    /\ pendingTimeouts = 0
    /\ cyc["timer"].pc = "call"
    /\ \E j \in JobIds : IsDue(jobs[j], now) /\ CurrentJob(cyc["timer"]) = j

\* C16: stop on a running scheduler clears the interval timer and sets
\* isRunning false; stop on a scheduler that is not running changes nothing;
\* a stopped scheduler has no interval timer armed.
C16_StopIsIdempotent ==
    /\ [](~isRunning => (armed = {} /\ intervalId = 0))
    /\ [][StopCalled =>
              /\ ~isRunning'
              /\ pendingTimeouts' = pendingTimeouts
              /\ isRunning => (armed' = armed \ {intervalId} /\ intervalId' = 0)
              /\ ~isRunning => (armed' = armed /\ intervalId' = intervalId)]_vars

C16_Witness ==
    /\ lastCall = "stop-again"
    /\ ~isRunning
    /\ armed = {}
    /\ pendingTimeouts = 1

\* C17: stop leaves the cycle in flight and the jobs as they are, and the
\* attempt under way when the scheduler is stopped ends with its outcome
\* written to the job as it is with the scheduler running.
C17_StopLetsAttemptComplete ==
    /\ [][StopCalled => UNCHANGED <<jobs, cyc>>]_vars
    /\ [][(Steps("timer") /\ ~isRunning /\ cyc["timer"].pc \in {"markPub", "markFail"}) =>
              LET c == cyc["timer"]
                  j == CurrentJob(c)
              IN  IF c.pc = "markPub"
                    THEN jobs' = MarkAsPublished(jobs, j, c.platformId, now)
                  ELSE jobs' = MarkAsFailed(jobs, j, c.error)]_vars
    /\ \A j \in JobIds :
          (/\ ~isRunning
           /\ cyc["timer"].pc \in {"fetch", "markPub", "markFail"}
           /\ CurrentJob(cyc["timer"]) = j) ~> (jobs[j].status \in Terminal)

C17_Witness ==
    /\ lastCall = "stop"
    /\ ~isRunning
    /\ pendingTimeouts = 1
    /\ cyc["timer"].pc = "fetch"

\* C18: each time a cycle counts a job as published, that step changes the
\* job's stored status from 'pending' to 'published', so the number a cycle
\* returns is the number of jobs it moved from 'pending' to 'published'.
C18_CountEqualsTransitions ==
    [][\A p \in Cycles :
          (cyc[p].pc = "markPub" /\ Steps(p) /\ cyc'[p].pc # "markFail") =>
              LET j == CurrentJob(cyc[p])
              IN  /\ Stored(j)
                  /\ jobs[j].status = "pending"
                  /\ jobs'[j].status = "published"]_vars

\* C20: getStatus changes nothing but what its caller holds, and the status
\* it returns has running true exactly when start was called last, and the
\* configured interval.
C20_GetStatusReadOnlyAccurate ==
    [][lastStatus' # lastStatus =>
          /\ lastStatus' = Some([running |-> StartedLast,
                                 checkIntervalMs |-> CheckIntervalMs])
          /\ UNCHANGED <<timerVars, lastCall, now, jobVars, tokVars>>]_vars

C20_Witness ==
    /\ lastStatus = Some([running |-> FALSE, checkIntervalMs |-> 60000])
    /\ lastCall = "stop"
    /\ pendingTimeouts = 1
    /\ cyc["timer"].pc # "idle"

\* A deleteScheduledPost request for job j ends.
DeleteEnds(j) == del' # del /\ del'.pc = "idle" /\ del'.id = j

\* A deleteScheduledPost request has read job j and goes on to remove it.
DeletePasses(j) == del' # del /\ del'.pc = "remove" /\ del'.id = j

\* C21: a deleteScheduledPost request that ends while its job is published
\* ends with an error and leaves the job as it is, also when the job became
\* published after the request had read it.
C21_DeletePublishedFails ==
    [][\A j \in JobIds :
        (DeleteEnds(j) /\ Stored(j) /\ jobs[j].status = "published") =>
            /\ del'.result \in DeleteErrors
            /\ jobs'[j] = jobs[j]]_vars

\* Job j was stored once and has been removed.
Deleted(j) == j < nextId /\ jobs[j] = Absent

\* getScheduledPosts returns.
Lists == listed' # listed

\* The ids of the posts in a result of getScheduledPosts.
ListedIds(l) == UNION {{s[i].id : i \in DOMAIN s} : s \in l}

\* C22: a deleteScheduledPost request that ends while its job is pending
\* succeeds and removes the job; a removed job stays removed, is in no
\* listing returned afterwards and is selected by no later getDuePosts query.
C22_DeletedPendingIsGone ==
    /\ [][\A j \in JobIds :
            (DeleteEnds(j) /\ Stored(j) /\ jobs[j].status = "pending") =>
                /\ del'.result = DeletedMsg
                /\ jobs'[j] = Absent]_vars
    /\ [][\A j \in JobIds :
            Deleted(j) =>
                /\ jobs'[j] = Absent
                /\ Lists => j \notin ListedIds(listed')
                /\ \A p \in Cycles : Queries(p) => j \notin Range(cyc'[p].due)]_vars

\* Job 1 has been deleted before any job was due, hence while it was pending,
\* and the listing returned afterwards shows job 2 alone.
C22_Witness ==
    /\ now = 0
    /\ Deleted(1)
    /\ del = Ended(1, DeletedMsg)
    /\ Stored(2)
    /\ listed = Some(<<FormatPost(jobs, 2)>>)

\* C23: a deleteScheduledPost request that ends while its job is published
\* or failed does not remove the job.
C23_TerminalJobNotDeleted ==
    [][\A j \in JobIds :
        (DeleteEnds(j) /\ Stored(j) /\ jobs[j].status \in Terminal) =>
            jobs'[j] # Absent]_vars

\* C23, as the code has it: a request that reads its job as published ends
\* with the error and changes nothing; a request goes on to the removal only
\* for a job it has read as pending or failed, and then removes the job
\* whatever the job's status has become; nothing else removes a job.
C23_RemovedUnlessReadAsPublished ==
    /\ [][\A j \in JobIds :
            (del.pc = "idle" /\ del' # del /\ del'.id = j
               /\ Stored(j) /\ jobs[j].status = "published") =>
                /\ del' = Ended(j, AlreadyPublishedMsg)
                /\ jobs' = jobs]_vars
    /\ [][\A j \in JobIds :
            DeletePasses(j) => Stored(j) /\ jobs[j].status \in {"pending", "failed"}]_vars
    /\ [][\A j \in JobIds :
            (del.pc = "remove" /\ DeleteEnds(j) /\ Stored(j)) =>
                /\ jobs'[j] = Absent
                /\ del'.result = DeletedMsg]_vars
    /\ [][\A j \in JobIds :
            (Stored(j) /\ jobs'[j] = Absent) => del.pc = "remove" /\ del.id = j]_vars

\* A request for a published job has ended with the error, the job in place.
C23_Witness ==
    \E j \in JobIds :
        /\ del = Ended(j, AlreadyPublishedMsg)
        /\ Stored(j)
        /\ jobs[j].status = "published"

\* C24: what getScheduledPosts returns shows the stored jobs whose status is
\* pending, all of them and no others.
C24_ListingIsExactlyPending ==
    [][Lists =>
        ListedIds(listed') = {j \in JobIds : Stored(j) /\ jobs[j].status = "pending"}]_vars

\* Some cycle is in the loop body for job j: createPost is being called for
\* it or its outcome is being written.
Attempting(j) ==
    \E p \in Cycles :
        /\ cyc[p].pc \in {"call", "fetch", "markPub", "markFail"}
        /\ CurrentJob(cyc[p]) = j

\* Some cycle's createPost for job j has ended with the given outcome and
\* the write of it is still to come.
AttemptEnded(j, outcomes) ==
    \E p \in Cycles :
        /\ cyc[p].pc \in {"markPub", "markFail"}
        /\ cyc[p].outcome \in outcomes
        /\ CurrentJob(cyc[p]) = j

\* C25: a stored job that is pending and due is eventually attempted by a
\* cycle; an attempt that ended in a publish success or in a rejection by the
\* platform eventually shows as a terminal status on the job.
C25_DueJobAttemptedAndRecorded ==
    \A j \in JobIds :
        /\ (Stored(j) /\ IsDue(jobs[j], now)) ~> Attempting(j)
        /\ AttemptEnded(j, {"ok"}) ~> (Stored(j) /\ jobs[j].status = "published")
        /\ AttemptEnded(j, {"http4xx"}) ~> (Stored(j) /\ jobs[j].status = "failed")

\* C25, as the code has it: the same, unless a caller's delete removes the
\* job before the attempt begins or before its outcome is written.
C25_AttemptedAndRecordedUnlessDeleted ==
    \A j \in JobIds :
        /\ (Stored(j) /\ IsDue(jobs[j], now)) ~> (Attempting(j) \/ ~Stored(j))
        /\ AttemptEnded(j, {"ok"}) ~> (~Stored(j) \/ jobs[j].status = "published")
        /\ AttemptEnded(j, {"http4xx"}) ~> (~Stored(j) \/ jobs[j].status = "failed")

\* Both jobs were due and attempted by the timers' cycles; one shows the
\* publish success, the other the platform's rejection.
C25_Witness ==
    /\ cyc["timer"].pc = "idle"
    /\ Stored(1) /\ jobs[1].status = "published"
    /\ Stored(2) /\ jobs[2].status = "failed" /\ jobs[2].error = Some(ClientErrorMsg)

\* The call in slot k, having assigned the credential, calls save().
SaveCalled(k) == refreshes[k].stage # "save" /\ refreshes'[k].stage = "save"

\* The save() called in slot k ends with the document written.
SaveSucceeds(k) ==
    /\ refreshes[k].stage = "save"
    /\ refreshes'[k].stage = "free"
    /\ boots' = boots
    /\ storeUp

\* C26: the document save() builds for the credential an exchange or refresh
\* has assigned loads back, into any new storage, to that credential: access
\* token, refresh token, expiry and user id; a save that succeeds stores that
\* document; and a start of the server that finds a document holds the
\* credential it loads back to, with which hasValidToken is true.
C26_SavedCredentialLoadsBack ==
    /\ [][\A k \in RefreshSlots : \A u \in UserIds :
            SaveCalled(k) =>
                /\ Load(NewStorage(u), refreshes'[k].data) = tokenStorage'
                /\ FileLoad(NewStorage(u), FileData(tokenStorage')) = tokenStorage']_vars
    /\ [][\A k \in RefreshSlots :
            SaveSucceeds(k) => persisted' = refreshes[k].data]_vars
    /\ [][(boots' # boots /\ persisted # NoRecord) =>
            /\ \A u \in UserIds : tokenStorage' = Load(NewStorage(u), persisted')
            /\ tokenStorage'.accessToken = persisted'.accessToken
            /\ tokenStorage'.refreshToken = persisted'.refreshToken
            /\ tokenStorage'.expiresAt = persisted'.expiresAt
            /\ tokenStorage'.userId = persisted'.userId
            /\ HasValidToken(tokenStorage', now')]_vars

\* The server has been started again after an exchange was saved, and holds
\* the saved credential, refresh token included.
C26_Witness ==
    /\ boots = 1
    /\ persisted # NoRecord
    /\ tokenStorage = Load(NewStorage(1), persisted)
    /\ tokenStorage.accessToken \in Tokens
    /\ tokenStorage.refreshToken \in Tokens

\* C27: no caller of getAccessToken receives an access token while the save
\* of the exchange or refresh that brought it has not ended.
C27_WriteThenReturn ==
    [][\A c \in Callers :
        Returns(c) =>
            ~\E k \in RefreshSlots :
                /\ refreshes'[k].stage = "save"
                /\ refreshes'[k].data.accessToken = callers'[c].token]_vars

\* The refresh exchanges on their way to the authorization endpoint.
InFlight == {k \in RefreshSlots : refreshes[k].kind = "refresh" /\ refreshes[k].stage = "fetch"}

\* The refresh exchanges sent in this step.
Sent == {k \in RefreshSlots : refreshes[k].stage = "free" /\ refreshes'[k].stage = "fetch"}

\* C28: one createPost call, through its hasValidToken and getAccessToken,
\* sends at most one refresh exchange.
C28_OneRefreshPerAttempt ==
    [][\A c \in Callers : Calls(c) => Cardinality(Sent) <= 1]_vars

\* C29: no two refresh exchanges are in flight at once, so none carries a
\* refresh token that another one in flight carries too.
C29_RefreshSerialized ==
    /\ Cardinality(InFlight) <= 1
    /\ \A k1, k2 \in InFlight : refreshes[k1].sent = refreshes[k2].sent => k1 = k2

\* C30: within a cycle, createPost is called for the first due post at the end
\* of the query, and for each further post at the end of the write of the
\* previous post's outcome, a write the store has answered: markAsPublished
\* after a success, markAsFailed after an error.
C30_OnePostAtATime ==
    [][\A p \in Cycles :
        CallsCreatePost(p) =>
            IF cyc'[p].i = 1
              THEN cyc[p].pc = "query"
            ELSE /\ cyc[p].pc \in {"markPub", "markFail"}
                 /\ cyc[p].due = cyc'[p].due
                 /\ cyc[p].i = cyc'[p].i - 1
                 /\ storeUp
                 /\ jobs' = IF cyc[p].pc = "markPub"
                              THEN MarkAsPublished(jobs, CurrentJob(cyc[p]),
                                                   ExtractPostId(cyc[p].result), now)
                            ELSE MarkAsFailed(jobs, CurrentJob(cyc[p]), cyc[p].error)]_vars

\* A cycle that found two due posts calls createPost for the second, the
\* first one's outcome being in the store.
C30_Witness ==
    \E p \in Cycles :
        /\ cyc[p].pc = "call"
        /\ cyc[p].i = 2
        /\ Stored(cyc[p].due[1])
        /\ jobs[cyc[p].due[1]].status \in Terminal
        /\ jobs[cyc[p].due[2]].status = "pending"

\* Cycle p ends a status write for its current post that the store answers.
Writes(p) == cyc[p].pc \in {"markPub", "markFail"} /\ Steps(p) /\ storeUp

\* C31: when createPost has failed for a due post and the store answers the
\* write, the failure is written to that post alone and the cycle goes on to
\* the next post it found due, or returns after the last; no step of a cycle
\* changes the record of a post other than the one it is at.
C31_FailureIsIsolated ==
    /\ [][\A p \in Cycles :
            (Writes(p) /\ cyc[p].pc = "markFail") =>
                LET c == cyc[p]
                    j == CurrentJob(c)
                IN  /\ jobs' = MarkAsFailed(jobs, j, c.error)
                    /\ \A k \in JobIds \ {j} : jobs'[k] = jobs[k]
                    /\ IF c.i < Len(c.due)
                         THEN /\ cyc'[p].pc = "call"
                              /\ cyc'[p].due = c.due
                              /\ cyc'[p].i = c.i + 1
                              /\ cyc'[p].publishedCount = c.publishedCount
                       ELSE cyc'[p].pc = "idle"]_vars
    /\ [][\A p \in Cycles :
            (Steps(p) /\ cyc[p].i > 0) =>
                \A k \in JobIds \ {CurrentJob(cyc[p])} : jobs'[k] = jobs[k]]_vars

\* The first of two due posts has been recorded as failed, and createPost has
\* returned for the second in the same cycle.
C31_Witness ==
    \E p \in Cycles :
        /\ Len(cyc[p].due) = 2
        /\ cyc[p].i = 2
        /\ cyc[p].pc = "markPub"
        /\ jobs[cyc[p].due[1]].status = "failed"
        /\ jobs[cyc[p].due[2]].status = "pending"

\* A store operation of cycle p throws: the store does not answer its query
\* or its status write.
StoreThrows(p) ==
    /\ Steps(p)
    /\ ~storeUp
    /\ cyc[p].pc \in {"query", "markPub", "markFail"}

\* C32: when the query or a status write of a cycle begun by a timer throws,
\* that cycle is over, the jobs are as they were, and the scheduler is running
\* as before with its interval timer armed, so that the next tick begins a
\* new cycle.
C32_StoreFailureEndsCycle ==
    [][StoreThrows("timer") =>
        /\ cyc'["timer"] = IdleCycle
        /\ jobs' = jobs
        /\ isRunning /\ isRunning'
        /\ armed # {} /\ armed' = armed
        /\ intervalId' = intervalId]_vars

\* Cycle p counts the publish of job j: markAsPublished has returned and
\* publishedCount is incremented.
CountsPublish(p, j) ==
    /\ cyc[p].pc = "markPub"
    /\ Steps(p)
    /\ cyc'[p].pc # "markFail"
    /\ CurrentJob(cyc[p]) = j

\* C33: a delete and a publish attempt on the same job do not both succeed:
\* a delete is reported successful only for a job that no attempt has
\* recorded as published, and a publish is counted only for a job that is in
\* the store, pending until then.
C33_DeleteAndPublishExclusive ==
    [][\A j \in JobIds :
        /\ (DeleteEnds(j) /\ del'.result = DeletedMsg) =>
              (Stored(j) /\ jobs[j].status # "published")
        /\ \A p \in Cycles :
              CountsPublish(p, j) => (Stored(j) /\ jobs[j].status = "pending")]_vars

\* C34: every stored job carries the outcome data of its status and no
\* other: pending, neither a published post id nor an error; published, a
\* post id and a time of publication and no error; failed, an error and no
\* post id.
C34_OutcomeMatchesStatus ==
    \A j \in JobIds :
        Stored(j) =>
            CASE jobs[j].status = "pending" ->
                    /\ jobs[j].publishedPostId = None
                    /\ jobs[j].publishedAt = None
                    /\ jobs[j].error = None
              [] jobs[j].status = "published" ->
                    /\ jobs[j].publishedPostId # None
                    /\ jobs[j].publishedAt # None
                    /\ jobs[j].error = None
              [] jobs[j].status = "failed" ->
                    /\ jobs[j].error # None
                    /\ jobs[j].publishedPostId = None

\* C35: after stop has returned and until start is called again (the
\* scheduler is not running), no timer begins an evaluation cycle: neither
\* the interval timer nor the delayed first evaluation of an earlier start.
C35_NoTimerCycleAfterStop ==
    [][(cyc["timer"].pc = "idle" /\ cyc'["timer"].pc # "idle") => isRunning]_vars

\* C36: after any sequence of start and stop calls the flags and the timers
\* agree: isRunning holds iff intervalId is defined iff exactly one interval
\* timer is armed, and there is never more than one armed interval timer nor
\* more than one pending delayed first evaluation.
C36_FlagsAndTimersAgree ==
    /\ isRunning <=> intervalId # 0
    /\ intervalId # 0 <=> Cardinality(armed) = 1
    /\ Cardinality(armed) <= 1
    /\ pendingTimeouts <= 1

\* C37: a job recorded as failed was never accepted by the platform: no
\* attempt whose publish call returned a post id writes the failed status
\* (also when its write of the published status throws), and no stored job
\* is failed while it carries the post id of a publish that succeeded (also
\* when two cycles overlap).
C37_FailedWasNeverAccepted ==
    /\ [][\A p \in Cycles :
            (cyc[p].pc = "markFail" /\ Writes(p)) => cyc[p].outcome # "ok"]_vars
    /\ [](\A j \in JobIds :
            (Stored(j) /\ jobs[j].status = "failed") => jobs[j].publishedPostId = None)

\* C38: a deleted job never reappears: the status write of an attempt that
\* was in flight when its job was deleted changes nothing in the job store,
\* and a job that has been removed has no record in any later state.
C38_DeletedJobStaysDeleted ==
    /\ [][\A p \in Cycles :
            (Writes(p) /\ Deleted(CurrentJob(cyc[p]))) => jobs' = jobs]_vars
    /\ [][\A j \in JobIds : Deleted(j) => Deleted(j)']_vars

\* deleteScheduledPost has removed job 1 and reported success while the timer
\* cycle was attempting it; the cycle's publish has succeeded and its
\* markAsPublished for the job is the next thing it does.
C38_Witness ==
    /\ Deleted(1)
    /\ del = Ended(1, DeletedMsg)
    /\ cyc["timer"].pc = "markPub"
    /\ CurrentJob(cyc["timer"]) = 1
    /\ storeUp

\* The jobs of a cycle's due list that the loop has not yet left behind.
Remaining(c) == {c.due[k] : k \in c.i..Len(c.due)}

\* C39: a stop called while a cycle is iterating does not cut the cycle
\* short: stop leaves the cycle's due list and position as they are, the loop
\* goes from one job to the next with the scheduler stopped as with it
\* running, and every job of the due list not yet behind the loop gets its
\* outcome recorded.
C39_StopDoesNotCutCycleShort ==
    /\ [][StopCalled =>
              /\ cyc'["timer"].due = cyc["timer"].due
              /\ cyc'["timer"].i = cyc["timer"].i
              /\ cyc'["timer"].pc = cyc["timer"].pc]_vars
    /\ [][(/\ Steps("timer")
           /\ ~isRunning
           /\ cyc["timer"].pc \in {"markPub", "markFail"}
           /\ cyc["timer"].i < Len(cyc["timer"].due)) =>
              /\ cyc'["timer"].pc = "call"
              /\ cyc'["timer"].i = cyc["timer"].i + 1
              /\ cyc'["timer"].due = cyc["timer"].due]_vars
    /\ \A j \in JobIds :
          (/\ ~isRunning
           /\ cyc["timer"].pc \in {"call", "fetch", "markPub", "markFail"}
           /\ j \in Remaining(cyc["timer"])) ~> (jobs[j].status \in Terminal)

\* The scheduler has been stopped and the timer's cycle, which fetched two
\* due jobs, has recorded the first one's outcome and is at the second.
C39_Witness ==
    /\ lastCall = "stop"
    /\ ~isRunning
    /\ armed = {}
    /\ Len(cyc["timer"].due) = 2
    /\ cyc["timer"].i = 2
    /\ cyc["timer"].pc = "call"
    /\ jobs[cyc["timer"].due[1]].status \in Terminal
    /\ jobs[cyc["timer"].due[2]].status = "pending"

\* C40: the manual trigger is independent of the timer state: the cycle it
\* begins, with the scheduler running or stopped, queries the jobs that are
\* due, attempts them one after the other, records the outcome of each and
\* ends after the last; no step of it changes isRunning, intervalId, the
\* armed timers or the check interval the scheduler reports.
C40_ManualTriggerIndependent ==
    /\ [][Steps("manual") => (UNCHANGED timerVars /\ Status' = Status)]_vars
    /\ [][Queries("manual") =>
              LET c == cyc'["manual"]
              IN  /\ Range(c.due) = GetDuePosts(jobs, now)
                  /\ IF c.due = <<>> THEN c.pc = "idle" ELSE c.pc = "call" /\ c.i = 1]_vars
    /\ [][(Steps("manual") /\ cyc["manual"].pc \in {"call", "fetch"}) =>
              /\ cyc'["manual"].pc \in {"fetch", "markPub", "markFail"}
              /\ cyc'["manual"].i = cyc["manual"].i
              /\ cyc'["manual"].due = cyc["manual"].due]_vars
    /\ [][(Steps("manual") /\ cyc["manual"].pc \in {"markPub", "markFail"}) =>
              LET c == cyc["manual"]
              IN  /\ jobs'[CurrentJob(c)].status \in Terminal
                  /\ IF c.i < Len(c.due)
                        THEN /\ cyc'["manual"].pc = "call"
                             /\ cyc'["manual"].i = c.i + 1
                             /\ cyc'["manual"].due = c.due
                      ELSE cyc'["manual"].pc = "idle"]_vars

\* The scheduler has been stopped, no timer of it is outstanding, and a cycle
\* begun by the manual trigger has published a job and is about to record it.
C40_Witness ==
    /\ lastCall = "stop"
    /\ ~isRunning
    /\ intervalId = 0
    /\ armed = {}
    /\ pendingTimeouts = 0
    /\ cyc["timer"].pc = "idle"
    /\ cyc["manual"].pc = "markPub"

====
